---- MODULE Spec2Model ----
(***************************************************************************)
(* breadcrumbs (src/src/lib.rs): a process-wide log store LOGS and an      *)
(* observer slot LOG_LISTENER, each behind its own spin::Mutex, with the   *)
(* operations init, init_with_listener, log, Log::remove and               *)
(* get_logs_traceback called from several threads.                         *)
(*                                                                         *)
(* A String is a sequence of one-character strings, Option<T> is <<>> for  *)
(* None and <<x>> for Some(x), a Vec is a sequence.                        *)
(***************************************************************************)
EXTENDS Integers, Sequences, FiniteSets, TLC

(***************************************************************************)
(* Bounds of the model.                                                    *)
(***************************************************************************)
\* threads of the concurrent specifications
NumThreads == 2
\* calls of the public API made in one behaviour of Spec
MaxOps == 3
\* calls of the public API made in one behaviour of SpecSeq
MaxSeqOps == 5
\* log calls made in one behaviour of SpecLog
MaxLogCalls == 3
\* entries of the store SpecQuery starts from
MaxStore == 2
\* calls of the public API made in one behaviour of SpecQuery
MaxQueryOps == 2

Threads == 1..NumThreads
NoThread == 0

None == <<>>
Some(x) == <<x>>
unwrap(o) == o[1]
unwrap_or(o, d) == IF o = None THEN d ELSE o[1]
is_some(o) == o # None

(***************************************************************************)
(* LogLevel                                                                *)
(***************************************************************************)
LogLevel == {"Verbose", "Info", "Warn", "Error", "Critical"}

\* #[derive(PartialOrd, Ord)]: the variants are ordered as they are declared
LevelOrd(level) ==
    CASE level = "Verbose" -> 0
      [] level = "Info" -> 1
      [] level = "Warn" -> 2
      [] level = "Error" -> 3
      [] level = "Critical" -> 4

Display_LogLevel(level) ==
    CASE level = "Verbose" -> <<"V", "e", "r", "b", "o", "s", "e">>
      [] level = "Info" -> <<"I", "n", "f", "o">>
      [] level = "Warn" -> <<"W", "a", "r", "n">>
      [] level = "Error" -> <<"E", "r", "r", "o", "r">>
      [] level = "Critical" -> <<"C", "r", "i", "t", "i", "c", "a", "l">>

\* a plausible slip: the Critical arm written like the Error arm
is_at_least_critical_arm(self, level) ==
    CASE level = "Verbose" -> TRUE
      [] level = "Info" -> self # "Verbose"
      [] level = "Warn" -> self # "Verbose" /\ self # "Info"
      [] level = "Error" -> self # "Verbose" /\ self # "Info" /\ self # "Warn"
      [] level = "Critical" -> self # "Verbose" /\ self # "Info" /\ self # "Warn"

is_at_least(self, level) ==
    CASE level = "Verbose" -> TRUE
      [] level = "Info" -> self # "Verbose"
      [] level = "Warn" -> self # "Verbose" /\ self # "Info"
      [] level = "Error" -> self # "Verbose" /\ self # "Info" /\ self # "Warn"
      [] level = "Critical" -> self = "Critical"

(***************************************************************************)
(* Log and Traceback                                                       *)
(***************************************************************************)
Log_new(channel, level, message) ==
    [channel |-> channel, level |-> level, message |-> message]

Display_Log(self) ==
    IF self.channel # <<>>
    THEN <<"[">> \o self.channel \o <<"/">> \o Display_LogLevel(self.level)
             \o <<"]", " ">> \o self.message
    ELSE <<"[">> \o Display_LogLevel(self.level) \o <<"]", " ">> \o self.message

\* Traceback::to_string: the loop over self.0, from its k-th entry on
RECURSIVE to_string_from(_, _, _)
to_string_from(v, k, traceback) ==
    IF k > Len(v) THEN traceback
    ELSE to_string_from(v, k + 1, traceback \o Display_Log(v[k]) \o <<"\n">>)

to_string(v) == to_string_from(v, 1, <<>>)

\* Vec::push
push(v, x) == Append(v, x)

\* Vec::clear
clear_nothing(v) == v

clear(v) == <<>>

\* Vec::contains
contains(v, x) == \E k \in 1..Len(v) : v[k] = x

\* Iterator::position: the first index whose element equals x, None if there is none
rposition(v, x) ==
    IF \E k \in 1..Len(v) : v[k] = x
    THEN Some(CHOOSE k \in 1..Len(v) : v[k] = x /\ \A j \in (k + 1)..Len(v) : v[j] # x)
    ELSE None

\* the first index when there is no equal element (position(..).unwrap_or(0))
position_or_first(v, x) ==
    IF \E k \in 1..Len(v) : v[k] = x
    THEN Some(CHOOSE k \in 1..Len(v) : v[k] = x /\ \A j \in 1..(k - 1) : v[j] # x)
    ELSE IF Len(v) > 0 THEN Some(1) ELSE None

position(v, x) ==
    IF \E k \in 1..Len(v) : v[k] = x
    THEN Some(CHOOSE k \in 1..Len(v) : v[k] = x /\ \A j \in 1..(k - 1) : v[j] # x)
    ELSE None

\* Vec::remove(index)
remove_nothing(v, index) == v

remove_at(v, index) == SubSeq(v, 1, index - 1) \o SubSeq(v, index + 1, Len(v))

\* the two filters of get_logs_traceback's loop body: TRUE when the entry is pushed
keep_either(entry, min_level, channels) ==
    \/ (is_some(min_level) /\ is_at_least(entry.level, unwrap(min_level)))
    \/ (is_some(channels) /\ contains(unwrap(channels), entry.channel))
    \/ (~is_some(min_level) /\ ~is_some(channels))

keep(entry, min_level, channels) ==
    IF is_some(min_level) /\ ~is_at_least(entry.level, unwrap(min_level))
    THEN FALSE
    ELSE IF is_some(channels) /\ ~contains(unwrap(channels), entry.channel)
         THEN FALSE
         ELSE TRUE

\* the Log that log hands to on_log
listener_copy_swapped(log) == Log_new(log.message, log.level, log.channel)

listener_copy(log) == Log_new(log.channel, log.level, log.message)

\* get_logs_traceback's loop run from the k-th entry of a store to its end
RECURSIVE traceback_from(_, _, _, _, _)
traceback_from(v, k, min_level, channels, logs) ==
    IF k > Len(v) THEN logs
    ELSE traceback_from(v, k + 1, min_level, channels,
                        IF keep(v[k], min_level, channels) THEN push(logs, v[k]) ELSE logs)

traceback(v, min_level, channels) == traceback_from(v, 1, min_level, channels, <<>>)

(***************************************************************************)
(* Observers: the LogListener implementations of the source.               *)
(***************************************************************************)
\* tests::MockLogListener keeps the log it is given
MockLogListener == "MockLogListener"
\* the listener of Log::remove's documentation removes what is below Warn
MyLogListener == "MyLogListener"
Listeners == {MockLogListener, MyLogListener}

\* whether on_log of this listener calls log.remove()
evicts(l, entry) == l = MyLogListener /\ ~is_at_least(entry.level, "Warn")

\* implementations of LogListener whose on_log calls back into the library:
\* log(None, None, message), init(), init_with_listener(Box::new(MockLogListener)),
\* get_logs_traceback(None, None)
LoggingListener == "LoggingListener"
ResetListener == "ResetListener"
ReinstallListener == "ReinstallListener"
TracebackListener == "TracebackListener"
ReentrantListeners == {LoggingListener, ResetListener, ReinstallListener, TracebackListener}

(***************************************************************************)
(* State.                                                                  *)
(*   LOGS, LOG_LISTENER     the two lazy_static values                     *)
(*   LOGS_lock, LISTENER_lock  the thread holding each spin::Mutex         *)
(*   pc, fr                 each thread's position and the locals of its   *)
(*                          call                                           *)
(*   calls, epoch, clean, notes, nops   the history of the behaviour: the  *)
(*       log calls made (with the slot's content at the call), how many    *)
(*       of them came before the last clear, whether no entry was removed  *)
(*       since that clear, the on_log invocations, the number of calls     *)
(*       made since the first state                                        *)
(***************************************************************************)
VARIABLES LOGS, LOG_LISTENER, LOGS_lock, LISTENER_lock, pc, fr,
          calls, epoch, clean, notes, nops

vars == <<LOGS, LOG_LISTENER, LOGS_lock, LISTENER_lock, pc, fr,
          calls, epoch, clean, notes, nops>>

NoLog == Log_new(<<>>, "Info", <<>>)
NoLast == [op |-> "none", log |-> NoLog, fresh |-> FALSE]

\* the locals of a thread that is in no call:
\*   op, log, listener, min_level, channels, i, logs, text: the call's locals
\*   at_least: what log.level.is_at_least(min_level.unwrap()) gave in the last turn
\*          of get_logs_traceback's loop, None when min_level is None
\*   solo:  no other thread was in a call since this call began
\*   fresh: the store held no entry equal to log when log was pushed
\*   last:  the thread's previous call, when it was a log, or the remove of the entry
\*          of the log before it; a get_logs_traceback in between leaves it as it is
\*   prev:  the arguments and result of the thread's previous get_logs_traceback,
\*          as long as the store was not written since; a get_logs_traceback with
\*          other arguments forgets it
\*   before: the store as it was when the thread called get_logs_traceback
IdleFrame ==
    [op |-> "none", log |-> NoLog, listener |-> None, min_level |-> None,
     channels |-> None, i |-> 0, at_least |-> None, logs |-> <<>>, text |-> <<>>,
     solo |-> FALSE, fresh |-> FALSE, last |-> NoLast, prev |-> None,
     before |-> <<>>]

Quiet(t) == \A u \in Threads \ {t} : pc[u] \in {"idle", "done", "panicked"}

\* the locals a thread starts its next call with: what it keeps of the call that
\* has just returned
Returned(f) ==
    [IdleFrame EXCEPT
       !.last = IF f.op = "log" THEN [op |-> "log", log |-> f.log, fresh |-> f.fresh]
                ELSE IF f.op = "remove" /\ f.last.op = "log" /\ f.last.log = f.log
                     THEN [f.last EXCEPT !.op = "remove"]
                     ELSE IF f.op = "get_logs_traceback" THEN f.last
                     ELSE NoLast,
       !.prev = IF f.op = "get_logs_traceback"
                THEN Some([min_level |-> f.min_level, channels |-> f.channels,
                           logs |-> f.logs])
                ELSE f.prev]

\* thread t, in no call, enters a call with the locals f
Call(t, f) ==
    /\ pc[t] \in {"idle", "done"}
    /\ fr' = [u \in Threads |->
                IF u = t THEN [f EXCEPT !.solo = Quiet(t)]
                ELSE [fr[u] EXCEPT !.solo = FALSE]]
    /\ nops' = nops + 1

\* the locals of every thread after thread t wrote the store and now has locals f
Written(t, f) ==
    [u \in Threads |-> IF u = t THEN [f EXCEPT !.prev = None]
                       ELSE [fr[u] EXCEPT !.prev = None]]

Init ==
    /\ LOGS = <<>>
    /\ LOG_LISTENER = None
    /\ LOGS_lock = NoThread
    /\ LISTENER_lock = NoThread
    /\ pc = [t \in Threads |-> "idle"]
    /\ fr = [t \in Threads |-> IdleFrame]
    /\ calls = <<>>
    /\ epoch = 0
    /\ clean = TRUE
    /\ notes = <<>>
    /\ nops = 0

(***************************************************************************)
(* init and init_with_listener                                             *)
(***************************************************************************)
init(t) ==
    /\ Call(t, [Returned(fr[t]) EXCEPT !.op = "init", !.listener = None])
    /\ pc' = [pc EXCEPT ![t] = "init_clear"]
    /\ UNCHANGED <<LOGS, LOG_LISTENER, LOGS_lock, LISTENER_lock, calls, epoch, clean, notes>>

init_with_listener(t, listener) ==
    /\ Call(t, [Returned(fr[t]) EXCEPT !.op = "init_with_listener", !.listener = Some(listener)])
    /\ pc' = [pc EXCEPT ![t] = "init_clear"]
    /\ UNCHANGED <<LOGS, LOG_LISTENER, LOGS_lock, LISTENER_lock, calls, epoch, clean, notes>>

\* the LOGS guard bound to a local that lives to the end of init
\* (let mut logs = LOGS.lock(); logs.clear();)
InitClear_holding(t) ==
    /\ pc[t] = "init_clear"
    /\ LOGS_lock = NoThread
    /\ LOGS_lock' = t
    /\ LOGS' = clear(LOGS)
    /\ epoch' = Len(calls)
    /\ clean' = TRUE
    /\ fr' = Written(t, fr[t])
    /\ pc' = [pc EXCEPT ![t] = "init_set"]
    /\ UNCHANGED <<LOG_LISTENER, LISTENER_lock, calls, notes, nops>>

\* LOGS.lock().clear(); the guard is dropped at the end of the statement
InitClear(t) ==
    /\ pc[t] = "init_clear"
    /\ LOGS_lock = NoThread
    /\ LOGS' = clear(LOGS)
    /\ epoch' = Len(calls)
    /\ clean' = TRUE
    /\ fr' = Written(t, fr[t])
    /\ pc' = [pc EXCEPT ![t] = "init_set"]
    /\ UNCHANGED <<LOG_LISTENER, LOGS_lock, LISTENER_lock, calls, notes, nops>>

\* *LOG_LISTENER.lock() = None / Some(listener);
InitSetListener(t) ==
    /\ pc[t] = "init_set"
    /\ LISTENER_lock = NoThread
    /\ LOG_LISTENER' = fr[t].listener
    /\ pc' = [pc EXCEPT ![t] = "done"]
    /\ UNCHANGED <<LOGS, LOGS_lock, LISTENER_lock, fr, calls, epoch, clean, notes, nops>>

(***************************************************************************)
(* log                                                                     *)
(***************************************************************************)
log(t, level, channel, message) ==
    LET entry == Log_new(unwrap_or(channel, <<>>), unwrap_or(level, "Info"), message)
    IN /\ Call(t, [Returned(fr[t]) EXCEPT !.op = "log", !.log = entry])
       /\ pc' = [pc EXCEPT ![t] = "log_push"]
       /\ calls' = Append(calls, [log |-> entry, listener |-> LOG_LISTENER])
       /\ UNCHANGED <<LOGS, LOG_LISTENER, LOGS_lock, LISTENER_lock, epoch, clean, notes>>

\* the entry put at the front of the store (LOGS.lock().insert(0, log.clone()))
LogPush_front(t) ==
    /\ pc[t] = "log_push"
    /\ LOGS_lock = NoThread
    /\ LOGS' = <<fr[t].log>> \o LOGS
    /\ fr' = Written(t, [fr[t] EXCEPT !.fresh = ~contains(LOGS, fr[t].log)])
    /\ pc' = [pc EXCEPT ![t] = "log_listener"]
    /\ UNCHANGED <<LOG_LISTENER, LOGS_lock, LISTENER_lock, calls, epoch, clean, notes, nops>>

\* the LOGS guard bound to a local that lives to the end of log
\* (let mut logs = LOGS.lock(); logs.push(log.clone());)
LogPush_holding(t) ==
    /\ pc[t] = "log_push"
    /\ LOGS_lock = NoThread
    /\ LOGS_lock' = t
    /\ LOGS' = push(LOGS, fr[t].log)
    /\ fr' = Written(t, [fr[t] EXCEPT !.fresh = ~contains(LOGS, fr[t].log)])
    /\ pc' = [pc EXCEPT ![t] = "log_listener"]
    /\ UNCHANGED <<LOG_LISTENER, LISTENER_lock, calls, epoch, clean, notes, nops>>

\* the push left to the end of log, after the observer
LogPush_later(t) ==
    /\ pc[t] = "log_push"
    /\ LOGS_lock = NoThread
    /\ pc' = [pc EXCEPT ![t] = "log_listener"]
    /\ UNCHANGED <<LOGS, LOG_LISTENER, LOGS_lock, LISTENER_lock, fr, calls, epoch, clean, notes, nops>>

\* LOGS.lock().push(log.clone()); the guard is dropped at the end of the statement
LogPush(t) ==
    /\ pc[t] = "log_push"
    /\ LOGS_lock = NoThread
    /\ LOGS' = push(LOGS, fr[t].log)
    /\ fr' = Written(t, [fr[t] EXCEPT !.fresh = ~contains(LOGS, fr[t].log)])
    /\ pc' = [pc EXCEPT ![t] = "log_listener"]
    /\ UNCHANGED <<LOG_LISTENER, LOGS_lock, LISTENER_lock, calls, epoch, clean, notes, nops>>

\* the slot's guard dropped before the call (the listener taken out of the slot:
\* let listener = LOG_LISTENER.lock().take(); ... listener.on_log(..))
LogLockListener_released(t) ==
    /\ pc[t] = "log_listener"
    /\ LISTENER_lock = NoThread
    /\ fr' = [fr EXCEPT ![t].listener = LOG_LISTENER]
    /\ pc' = [pc EXCEPT ![t] = IF LOG_LISTENER = None THEN "done" ELSE "on_log"]
    /\ UNCHANGED <<LOGS, LOG_LISTENER, LOGS_lock, LISTENER_lock, calls, epoch, clean, notes, nops>>

\* a lock that the thread holding it can take again (a re-entrant mutex)
LogLockListener_reentrant(t) ==
    /\ pc[t] = "log_listener"
    /\ LISTENER_lock \in {NoThread, t}
    /\ fr' = [fr EXCEPT ![t].listener = LOG_LISTENER]
    /\ IF LOG_LISTENER = None
       THEN /\ pc' = [pc EXCEPT ![t] = "done"]
            /\ UNCHANGED LISTENER_lock
       ELSE /\ pc' = [pc EXCEPT ![t] = "on_log"]
            /\ LISTENER_lock' = t
    /\ UNCHANGED <<LOGS, LOG_LISTENER, LOGS_lock, calls, epoch, clean, notes, nops>>

\* if let Some(listener) = &mut *LOG_LISTENER.lock(): the guard lives to the end of
\* the if let, so it is held through on_log, and dropped at once when the slot is None
LogLockListener(t) ==
    /\ pc[t] = "log_listener"
    /\ LISTENER_lock = NoThread
    /\ fr' = [fr EXCEPT ![t].listener = LOG_LISTENER]
    /\ IF LOG_LISTENER = None
       THEN /\ pc' = [pc EXCEPT ![t] = "done"]
            /\ UNCHANGED LISTENER_lock
       ELSE /\ pc' = [pc EXCEPT ![t] = "on_log"]
            /\ LISTENER_lock' = t
    /\ UNCHANGED <<LOGS, LOG_LISTENER, LOGS_lock, calls, epoch, clean, notes, nops>>

\* listener.on_log(Log::new(log.channel, log.level, log.message))
on_log(t) ==
    LET l == unwrap(fr[t].listener)
        copy == listener_copy(fr[t].log)
    IN /\ pc[t] = "on_log"
       /\ l \in Listeners
       /\ notes' = Append(notes, [listener |-> l, log |-> copy])
       /\ pc' = [pc EXCEPT ![t] = IF evicts(l, copy) THEN "remove" ELSE "log_unlock"]
       /\ UNCHANGED <<LOGS, LOG_LISTENER, LOGS_lock, LISTENER_lock, fr, calls, epoch, clean, nops>>

\* listener.on_log(..) of a listener that calls back into the library: the thread
\* enters the call it makes, still holding the LOG_LISTENER guard of the log call
\* it is in; the locals of the inner call take the place of the outer ones
on_log_reenters(t) ==
    LET l == unwrap(fr[t].listener)
        copy == listener_copy(fr[t].log)
        inner == Log_new(unwrap_or(None, <<>>), unwrap_or(None, "Info"), copy.message)
    IN /\ pc[t] = "on_log"
       /\ l \in ReentrantListeners
       /\ notes' = Append(notes, [listener |-> l, log |-> copy])
       /\ CASE l = LoggingListener ->
                 /\ fr' = [fr EXCEPT ![t].op = "log", ![t].log = inner]
                 /\ pc' = [pc EXCEPT ![t] = "log_push"]
                 /\ calls' = Append(calls, [log |-> inner, listener |-> LOG_LISTENER])
            [] l = ResetListener ->
                 /\ fr' = [fr EXCEPT ![t].op = "init", ![t].listener = None]
                 /\ pc' = [pc EXCEPT ![t] = "init_clear"]
                 /\ UNCHANGED calls
            [] l = ReinstallListener ->
                 /\ fr' = [fr EXCEPT ![t].op = "init_with_listener",
                                     ![t].listener = Some(MockLogListener)]
                 /\ pc' = [pc EXCEPT ![t] = "init_clear"]
                 /\ UNCHANGED calls
            [] l = TracebackListener ->
                 /\ fr' = [fr EXCEPT ![t].op = "get_logs_traceback",
                                     ![t].min_level = None, ![t].channels = None,
                                     ![t].before = LOGS]
                 /\ pc' = [pc EXCEPT ![t] = "tb_lock"]
                 /\ UNCHANGED calls
       /\ UNCHANGED <<LOGS, LOG_LISTENER, LOGS_lock, LISTENER_lock, epoch, clean, nops>>

\* the end of the if let: the LOG_LISTENER guard is dropped
LogUnlockListener(t) ==
    /\ pc[t] = "log_unlock"
    /\ LISTENER_lock = t
    /\ LISTENER_lock' = NoThread
    /\ pc' = [pc EXCEPT ![t] = "done"]
    /\ UNCHANGED <<LOGS, LOG_LISTENER, LOGS_lock, fr, calls, epoch, clean, notes, nops>>

(***************************************************************************)
(* Log::remove, called by a thread or by on_log                            *)
(***************************************************************************)
remove(t, self) ==
    /\ Call(t, [Returned(fr[t]) EXCEPT !.op = "remove", !.log = self])
    /\ pc' = [pc EXCEPT ![t] = "remove"]
    /\ UNCHANGED <<LOGS, LOG_LISTENER, LOGS_lock, LISTENER_lock, calls, epoch, clean, notes>>

\* let mut logs = LOGS.lock(): the guard lives to the end of remove
RemoveLock(t) ==
    /\ pc[t] = "remove"
    /\ LOGS_lock = NoThread
    /\ LOGS_lock' = t
    /\ pc' = [pc EXCEPT ![t] = "remove_locked"]
    /\ UNCHANGED <<LOGS, LOG_LISTENER, LISTENER_lock, fr, calls, epoch, clean, notes, nops>>

\* position(..).unwrap(); logs.remove(index); and the guard is dropped.
\* unwrap of None panics: the thread unwinds and drops the guards it holds
Log_remove(t) ==
    LET index == position(LOGS, fr[t].log)
    IN /\ pc[t] = "remove_locked"
       /\ LOGS_lock' = NoThread
       /\ IF index = None
          THEN /\ pc' = [pc EXCEPT ![t] = "panicked"]
               /\ LISTENER_lock' = IF LISTENER_lock = t THEN NoThread ELSE LISTENER_lock
               /\ UNCHANGED <<LOGS, fr, clean>>
          ELSE /\ LOGS' = remove_at(LOGS, unwrap(index))
               /\ clean' = FALSE
               /\ fr' = Written(t, fr[t])
               /\ pc' = [pc EXCEPT ![t] = IF LISTENER_lock = t THEN "log_unlock" ELSE "done"]
               /\ UNCHANGED LISTENER_lock
       /\ UNCHANGED <<LOG_LISTENER, calls, epoch, notes, nops>>

(***************************************************************************)
(* get_logs_traceback and Traceback::to_string                             *)
(***************************************************************************)
get_logs_traceback(t, min_level, channels) ==
    /\ Call(t, [Returned(fr[t]) EXCEPT
                  !.op = "get_logs_traceback",
                  !.min_level = min_level, !.channels = channels,
                  !.before = LOGS,
                  !.prev = IF @ # None /\ unwrap(@).min_level = min_level
                                       /\ unwrap(@).channels = channels
                           THEN @ ELSE None])
    /\ pc' = [pc EXCEPT ![t] = "tb_lock"]
    /\ UNCHANGED <<LOGS, LOG_LISTENER, LOGS_lock, LISTENER_lock, calls, epoch, clean, notes>>

\* the guard dropped before the loop, which runs on the shared store
\* (let n = LOGS.lock().len(); for i in 0..n { .. })
TbLock_released(t) ==
    /\ pc[t] = "tb_lock"
    /\ LOGS_lock = NoThread
    /\ fr' = [fr EXCEPT ![t].i = 1, ![t].logs = <<>>]
    /\ pc' = [pc EXCEPT ![t] = "tb_iter"]
    /\ UNCHANGED <<LOGS, LOG_LISTENER, LOGS_lock, LISTENER_lock, calls, epoch, clean, notes, nops>>

\* for log in LOGS.lock().iter(): the guard lives to the end of the loop
TbLock(t) ==
    /\ pc[t] = "tb_lock"
    /\ LOGS_lock = NoThread
    /\ LOGS_lock' = t
    /\ fr' = [fr EXCEPT ![t].i = 1, ![t].logs = <<>>]
    /\ pc' = [pc EXCEPT ![t] = "tb_iter"]
    /\ UNCHANGED <<LOGS, LOG_LISTENER, LISTENER_lock, calls, epoch, clean, notes, nops>>

\* one turn of the loop
TbNext(t) ==
    /\ pc[t] = "tb_iter"
    /\ fr[t].i <= Len(LOGS)
    /\ fr' = [fr EXCEPT ![t].i = @ + 1,
                        ![t].at_least = IF is_some(fr[t].min_level)
                                        THEN Some(is_at_least(LOGS[fr[t].i].level,
                                                              unwrap(fr[t].min_level)))
                                        ELSE None,
                        ![t].logs = IF keep(LOGS[fr[t].i], fr[t].min_level, fr[t].channels)
                                    THEN push(@, LOGS[fr[t].i]) ELSE @]
    /\ UNCHANGED <<LOGS, LOG_LISTENER, LOGS_lock, LISTENER_lock, pc, calls, epoch, clean, notes, nops>>

\* a loop that takes the entries out of the store (LOGS.lock().drain(..))
TbEnd_drained(t) ==
    /\ pc[t] = "tb_iter"
    /\ fr[t].i > Len(LOGS)
    /\ LOGS' = <<>>
    /\ LOGS_lock' = NoThread
    /\ pc' = [pc EXCEPT ![t] = "tb_ret"]
    /\ UNCHANGED <<LOG_LISTENER, LISTENER_lock, fr, calls, epoch, clean, notes, nops>>

\* the loop ends: the guard is dropped, Traceback(logs) is returned
TbEnd(t) ==
    /\ pc[t] = "tb_iter"
    /\ fr[t].i > Len(LOGS)
    /\ LOGS_lock' = NoThread
    /\ pc' = [pc EXCEPT ![t] = "tb_ret"]
    /\ UNCHANGED <<LOGS, LOG_LISTENER, LISTENER_lock, fr, calls, epoch, clean, notes, nops>>

\* the caller renders the Traceback it got; a caller that is on_log returns to log
Traceback_to_string(t) ==
    /\ pc[t] = "tb_ret"
    /\ fr' = [fr EXCEPT ![t].text = to_string(fr[t].logs)]
    /\ pc' = [pc EXCEPT ![t] = IF LISTENER_lock = t THEN "log_unlock" ELSE "done"]
    /\ UNCHANGED <<LOGS, LOG_LISTENER, LOGS_lock, LISTENER_lock, calls, epoch, clean, notes, nops>>

(***************************************************************************)
(* Spec: every operation, called from NumThreads threads.                  *)
(***************************************************************************)
Info_m == <<None, None, <<"m">>>>
Warn_a_m == <<Some("Warn"), Some(<<"a">>), <<"m">>>>
LogInputs == {Info_m, Warn_a_m}
RemoveInputs == {Log_new(<<>>, "Info", <<"m">>)}

Next ==
    \E t \in Threads :
        \/ nops < MaxOps /\ init(t)
        \/ nops < MaxOps /\ \E l \in Listeners : init_with_listener(t, l)
        \/ nops < MaxOps /\ log(t, Info_m[1], Info_m[2], Info_m[3])
        \/ nops < MaxOps /\ \E e \in RemoveInputs : remove(t, e)
        \/ nops < MaxOps /\ get_logs_traceback(t, None, None)
        \/ InitClear(t)
        \/ InitSetListener(t)
        \/ LogPush(t)
        \/ LogLockListener(t)
        \/ on_log(t)
        \/ LogUnlockListener(t)
        \/ RemoveLock(t)
        \/ Log_remove(t)
        \/ TbLock(t)
        \/ TbNext(t)
        \/ TbEnd(t)
        \/ Traceback_to_string(t)

Spec == Init /\ [][Next]_vars

(***************************************************************************)
(* SpecSeq: every operation, called from one thread.                       *)
(***************************************************************************)
Verbose_b_hi == <<Some("Verbose"), Some(<<"b">>), <<"h", "i">>>>
SeqLogInputs == {Info_m, Warn_a_m, Verbose_b_hi}
SeqRemoveInputs == {Log_new(<<>>, "Info", <<"m">>), Log_new(<<"a">>, "Warn", <<"m">>)}
\* the one thread that makes the calls
Callers == {t \in Threads : \A u \in Threads : t <= u}

NextSeq ==
    \E t \in Callers :
        \/ nops < MaxSeqOps /\ init(t)
        \/ nops < MaxSeqOps /\ \E l \in Listeners : init_with_listener(t, l)
        \/ nops < MaxSeqOps /\ \E a \in SeqLogInputs : log(t, a[1], a[2], a[3])
        \/ nops < MaxSeqOps /\ \E e \in SeqRemoveInputs : remove(t, e)
        \/ nops < MaxSeqOps /\ get_logs_traceback(t, None, None)
        \/ InitClear(t)
        \/ InitSetListener(t)
        \/ LogPush(t)
        \/ LogLockListener(t)
        \/ on_log(t)
        \/ LogUnlockListener(t)
        \/ RemoveLock(t)
        \/ Log_remove(t)
        \/ TbLock(t)
        \/ TbNext(t)
        \/ TbEnd(t)
        \/ Traceback_to_string(t)

SpecSeq == Init /\ [][NextSeq]_vars

(***************************************************************************)
(* SpecQuery: get_logs_traceback with every kind of argument, and log,     *)
(* called from one thread on a store that earlier log calls have filled.   *)
(***************************************************************************)
QueryEntries ==
    {Log_new(<<"a">>, level, <<"m">>) : level \in LogLevel}
        \cup {Log_new(<<>>, level, <<"m">>) : level \in {"Info", "Error"}}
QueryLevels == {None} \cup {Some(level) : level \in LogLevel}
QueryChannels == {None, Some(<< <<"a">> >>), Some(<< <<"b">>, <<>> >>)}
Stores == UNION {[1..n -> QueryEntries] : n \in 0..MaxStore}

\* the state after init() or init_with_listener(MockLogListener) and the log calls
\* that filled the store
InitQuery ==
    /\ LOGS \in Stores
    /\ LOG_LISTENER \in {None, Some(MockLogListener)}
    /\ LOGS_lock = NoThread
    /\ LISTENER_lock = NoThread
    /\ pc = [t \in Threads |-> "idle"]
    /\ fr = [t \in Threads |-> IdleFrame]
    /\ calls = [k \in 1..Len(LOGS) |-> [log |-> LOGS[k], listener |-> LOG_LISTENER]]
    /\ epoch = 0
    /\ clean = TRUE
    /\ notes = IF LOG_LISTENER = None THEN <<>>
               ELSE [k \in 1..Len(LOGS) |->
                       [listener |-> unwrap(LOG_LISTENER), log |-> listener_copy(LOGS[k])]]
    /\ nops = 0

NextQuery ==
    \E t \in Callers :
        \/ nops < MaxQueryOps /\ \E min_level \in QueryLevels, channels \in QueryChannels :
                                    get_logs_traceback(t, min_level, channels)
        \/ nops < MaxQueryOps /\ log(t, Info_m[1], Info_m[2], Info_m[3])
        \/ TbLock(t)
        \/ TbNext(t)
        \/ TbEnd(t)
        \/ Traceback_to_string(t)
        \/ LogPush(t)
        \/ LogLockListener(t)
        \/ on_log(t)
        \/ LogUnlockListener(t)

SpecQuery == InitQuery /\ [][NextQuery]_vars

(***************************************************************************)
(* SpecLog: NumThreads threads that only call log, after init() or         *)
(* init_with_listener(l).                                                  *)
(***************************************************************************)
InitLog ==
    /\ LOGS = <<>>
    /\ LOG_LISTENER \in {None} \cup {Some(l) : l \in Listeners}
    /\ LOGS_lock = NoThread
    /\ LISTENER_lock = NoThread
    /\ pc = [t \in Threads |-> "idle"]
    /\ fr = [t \in Threads |-> IdleFrame]
    /\ calls = <<>>
    /\ epoch = 0
    /\ clean = TRUE
    /\ notes = <<>>
    /\ nops = 0

NextLog ==
    \E t \in Threads :
        \/ nops < MaxLogCalls /\ \E a \in LogInputs : log(t, a[1], a[2], a[3])
        \/ LogPush(t)
        \/ LogLockListener(t)
        \/ on_log(t)
        \/ LogUnlockListener(t)
        \/ RemoveLock(t)
        \/ Log_remove(t)

SpecLog == InitLog /\ [][NextLog]_vars

(***************************************************************************)
(* SpecLogQuery: NumThreads threads that call log and get_logs_traceback,  *)
(* after init() or init_with_listener(MockLogListener).                    *)
(***************************************************************************)
\* calls of the public API made in one behaviour of SpecLogQuery
MaxLogQueryOps == 3

InitLogQuery ==
    /\ LOGS = <<>>
    /\ LOG_LISTENER \in {None, Some(MockLogListener)}
    /\ LOGS_lock = NoThread
    /\ LISTENER_lock = NoThread
    /\ pc = [t \in Threads |-> "idle"]
    /\ fr = [t \in Threads |-> IdleFrame]
    /\ calls = <<>>
    /\ epoch = 0
    /\ clean = TRUE
    /\ notes = <<>>
    /\ nops = 0

NextLogQuery ==
    \E t \in Threads :
        \/ nops < MaxLogQueryOps /\ \E a \in LogInputs : log(t, a[1], a[2], a[3])
        \/ nops < MaxLogQueryOps /\ get_logs_traceback(t, None, None)
        \/ LogPush(t)
        \/ LogLockListener(t)
        \/ on_log(t)
        \/ LogUnlockListener(t)
        \/ TbLock(t)
        \/ TbNext(t)
        \/ TbEnd(t)
        \/ Traceback_to_string(t)

SpecLogQuery == InitLogQuery /\ [][NextLogQuery]_vars

(***************************************************************************)
(* SpecFair: every operation, called after init() or init_with_listener(l) *)
(* from NumThreads threads that the scheduler keeps running: a thread that *)
(* can take the next step of its call, and stays able to, takes it (a      *)
(* thread spinning on a lock gets it once the lock stays free).            *)
(***************************************************************************)
\* calls of the public API made in one behaviour of SpecFair
MaxFairOps == 2

\* thread t takes the next step of the call it is in
Step(t) ==
    \/ InitClear(t)
    \/ InitSetListener(t)
    \/ LogPush(t)
    \/ LogLockListener(t)
    \/ on_log(t)
    \/ LogUnlockListener(t)
    \/ RemoveLock(t)
    \/ Log_remove(t)
    \/ TbLock(t)
    \/ TbNext(t)
    \/ TbEnd(t)
    \/ Traceback_to_string(t)

NextFair ==
    \E t \in Threads :
        \/ nops < MaxFairOps /\ init(t)
        \/ nops < MaxFairOps /\ \E l \in Listeners : init_with_listener(t, l)
        \/ nops < MaxFairOps /\ log(t, Info_m[1], Info_m[2], Info_m[3])
        \/ nops < MaxFairOps /\ \E e \in RemoveInputs : remove(t, e)
        \/ nops < MaxFairOps /\ get_logs_traceback(t, None, None)
        \/ Step(t)

SpecFair == InitLog /\ [][NextFair]_vars /\ \A t \in Threads : WF_vars(Step(t))

(***************************************************************************)
(* SpecPar: calls of every operation, with every kind of argument, from    *)
(* NumThreads threads, on a store that init() or init_with_listener(l) and *)
(* log calls after it have filled.                                         *)
(***************************************************************************)
\* calls of the public API made in one behaviour of SpecPar
MaxParOps == 2
\* log calls made before the first state of SpecPar
MaxParLogged == 2

\* the arguments of the k-th log call made before the first state
ParLogged(k) == IF k % 2 = 1 THEN Info_m ELSE Warn_a_m
ParLevels == {None, Some("Warn")}

InitPar ==
    \E slot \in {None} \cup {Some(l) : l \in Listeners}, n \in 0..MaxParLogged :
        LET logged == [k \in 1..n |->
                         Log_new(unwrap_or(ParLogged(k)[2], <<>>),
                                 unwrap_or(ParLogged(k)[1], "Info"), ParLogged(k)[3])]
        IN /\ LOGS = SelectSeq(logged, LAMBDA e : slot = None \/ ~evicts(unwrap(slot), e))
           /\ LOG_LISTENER = slot
           /\ LOGS_lock = NoThread
           /\ LISTENER_lock = NoThread
           /\ pc = [t \in Threads |-> "idle"]
           /\ fr = [t \in Threads |-> IdleFrame]
           /\ calls = [k \in 1..n |-> [log |-> logged[k], listener |-> slot]]
           /\ epoch = 0
           /\ clean = (Len(LOGS) = n)
           /\ notes = IF slot = None THEN <<>>
                      ELSE [k \in 1..n |->
                              [listener |-> unwrap(slot), log |-> listener_copy(logged[k])]]
           /\ nops = 0

NextPar ==
    \E t \in Threads :
        \/ nops < MaxParOps /\ init(t)
        \/ nops < MaxParOps /\ \E l \in Listeners : init_with_listener(t, l)
        \/ nops < MaxParOps /\ log(t, Info_m[1], Info_m[2], Info_m[3])
        \/ nops < MaxParOps /\ \E e \in RemoveInputs : remove(t, e)
        \/ nops < MaxParOps /\ \E min_level \in ParLevels :
                                  get_logs_traceback(t, min_level, None)
        \/ InitClear(t)
        \/ InitSetListener(t)
        \/ LogPush(t)
        \/ LogLockListener(t)
        \/ on_log(t)
        \/ LogUnlockListener(t)
        \/ RemoveLock(t)
        \/ Log_remove(t)
        \/ TbLock(t)
        \/ TbNext(t)
        \/ TbEnd(t)
        \/ Traceback_to_string(t)

SpecPar == InitPar /\ [][NextPar]_vars

(***************************************************************************)
(* SpecReentrant: log and init called from NumThreads threads that the     *)
(* scheduler keeps running, after init_with_listener(l) with a listener l  *)
(* whose on_log calls back into the library.                               *)
(***************************************************************************)
\* calls of the public API made by the threads in one behaviour of SpecReentrant
MaxReentrantOps == 2

InitReentrant ==
    /\ LOGS = <<>>
    /\ LOG_LISTENER \in {Some(l) : l \in ReentrantListeners \cup {MyLogListener}}
    /\ LOGS_lock = NoThread
    /\ LISTENER_lock = NoThread
    /\ pc = [t \in Threads |-> "idle"]
    /\ fr = [t \in Threads |-> IdleFrame]
    /\ calls = <<>>
    /\ epoch = 0
    /\ clean = TRUE
    /\ notes = <<>>
    /\ nops = 0

NextReentrant ==
    \E t \in Threads :
        \/ nops < MaxReentrantOps /\ log(t, Info_m[1], Info_m[2], Info_m[3])
        \/ nops < MaxReentrantOps /\ init(t)
        \/ on_log_reenters(t)
        \/ Step(t)

SpecReentrant ==
    /\ InitReentrant
    /\ [][NextReentrant]_vars
    /\ \A t \in Threads : WF_vars(on_log_reenters(t) \/ Step(t))

(***************************************************************************)
(* The claims.                                                             *)
(***************************************************************************)
Range(v) == {v[k] : k \in 1..Len(v)}

\* a is no less severe than b in the order Verbose < Info < Warn < Error < Critical
NoLessSevere(a, b) == LevelOrd(a) >= LevelOrd(b)

\* the entry passes both filters of a query, each one only when it is given
Selected(entry, min_level, channels) ==
    /\ min_level # None => NoLessSevere(entry.level, min_level[1])
    /\ channels # None => entry.channel \in Range(channels[1])

Filtered(v, min_level, channels) ==
    SelectSeq(v, LAMBDA entry : Selected(entry, min_level, channels))

InQuery(t) == pc[t] \in {"tb_lock", "tb_iter", "tb_ret"}

\* thread t takes a step of get_logs_traceback: it enters it, or moves on in it
QueryStep(t) ==
    \/ ~InQuery(t) /\ pc'[t] = "tb_lock"
    \/ InQuery(t) /\ (pc'[t] # pc[t] \/ fr'[t].i # fr[t].i)

\* C2: get_logs_traceback(min_level, channels) returns exactly the entries of the
\* store, in the store's order, whose level is at least min_level (when it is given)
\* and whose channel is one of channels (when they are given); while the loop runs,
\* its result so far is that selection of the entries it has passed.
C2_FilteredSubsequence ==
    \A t \in Threads :
        /\ (pc[t] \in {"tb_ret", "done"} /\ fr[t].op = "get_logs_traceback")
              => fr[t].logs = Filtered(LOGS, fr[t].min_level, fr[t].channels)
        /\ pc[t] = "tb_iter"
              => fr[t].logs = Filtered(SubSeq(LOGS, 1, fr[t].i - 1),
                                       fr[t].min_level, fr[t].channels)

\* a query with both filters has returned one of two entries, and left out an entry
\* that passes the level filter alone, and one that passes the channel filter alone
C2_Witness ==
    \E t \in Threads :
        /\ pc[t] = "done" /\ fr[t].op = "get_logs_traceback"
        /\ fr[t].min_level # None /\ fr[t].channels # None
        /\ Len(LOGS) = 2 /\ Len(fr[t].logs) = 1
        /\ \/ /\ NoLessSevere(LOGS[1].level, fr[t].min_level[1])
              /\ LOGS[1].channel \notin Range(fr[t].channels[1])
           \/ /\ ~NoLessSevere(LOGS[1].level, fr[t].min_level[1])
              /\ LOGS[1].channel \in Range(fr[t].channels[1])

\* C8: a.is_at_least(b) is true exactly when a is no less severe than b in the order
\* Verbose < Info < Warn < Error < Critical: for every pair of levels, and for every
\* comparison a query has made; Critical is at least every level, Verbose is at
\* least Verbose only.
C8_IsAtLeastIsTheOrder ==
    /\ \A a, b \in LogLevel : is_at_least(a, b) <=> NoLessSevere(a, b)
    /\ \A x \in LogLevel : is_at_least("Critical", x)
    /\ \A x \in LogLevel : is_at_least("Verbose", x) <=> x = "Verbose"
    /\ \A t \in Threads :
          (pc[t] = "tb_iter" /\ fr[t].at_least # None)
             => fr[t].at_least[1] = NoLessSevere(LOGS[fr[t].i - 1].level, fr[t].min_level[1])

\* a query with the threshold Critical has just compared an Error entry with it and
\* found it too low, after it found a Critical entry high enough
C8_Witness ==
    \E t \in Threads :
        /\ pc[t] = "tb_iter" /\ fr[t].i = 3
        /\ fr[t].min_level = Some("Critical")
        /\ LOGS[1].level = "Critical" /\ LOGS[2].level = "Error"
        /\ fr[t].at_least = Some(FALSE)
        /\ Len(fr[t].logs) = 1

\* C9: no step of get_logs_traceback changes the entry sequence or the observer
\* slot or invokes on_log, and a call with the arguments of the thread's previous
\* call, the store not written in between, returns what that call returned.
C9_QueryIsPure ==
    /\ [][\A t \in Threads : QueryStep(t) => UNCHANGED <<LOGS, LOG_LISTENER, notes>>]_vars
    /\ [](\A t \in Threads :
            (pc[t] \in {"tb_ret", "done"} /\ fr[t].op = "get_logs_traceback"
               /\ fr[t].prev # None)
                  => fr[t].logs = fr[t].prev[1].logs)

\* the second of two equal calls has returned part of a store that has an observer
C9_Witness ==
    \E t \in Threads :
        /\ pc[t] = "done" /\ fr[t].op = "get_logs_traceback"
        /\ fr[t].prev # None
        /\ LOG_LISTENER # None
        /\ fr[t].logs # <<>> /\ fr[t].logs # LOGS

\* what the canonical form of an entry is: [channel/level] message, and
\* [level] message when the channel is empty
Canonical(entry) ==
    IF entry.channel = <<>>
    THEN <<"[">> \o Display_LogLevel(entry.level) \o <<"]", " ">> \o entry.message
    ELSE <<"[">> \o entry.channel \o <<"/">> \o Display_LogLevel(entry.level)
             \o <<"]", " ">> \o entry.message

RECURSIVE Rendered(_)
Rendered(v) ==
    IF v = <<>> THEN <<>> ELSE Canonical(Head(v)) \o <<"\n">> \o Rendered(Tail(v))

\* the entries of the log calls made since the last reset, in call order
LoggedSinceReset == [k \in 1..(Len(calls) - epoch) |-> calls[epoch + k].log]

\* no thread is in a call
Quiescent == \A t \in Threads : pc[t] \in {"idle", "done"}

\* C1: after a reset and log calls with no remove in between,
\* get_logs_traceback(None, None) returns the entries of those calls, one per call,
\* in call order, and to_string() of it is their canonical forms, each followed by
\* a newline, in that order.
C1_TracebackIsTheLogCalls ==
    \A t \in Threads :
        (pc[t] = "done" /\ fr[t].op = "get_logs_traceback"
           /\ fr[t].min_level = None /\ fr[t].channels = None /\ clean)
              => /\ fr[t].logs = LoggedSinceReset
                 /\ fr[t].text = Rendered(LoggedSinceReset)

\* entries were logged, the store was reset, an entry without a channel and then
\* one with a channel were logged, and the traceback was taken and rendered
C1_Witness ==
    \E t \in Threads :
        /\ pc[t] = "done" /\ fr[t].op = "get_logs_traceback" /\ clean
        /\ epoch > 0
        /\ Len(fr[t].logs) = 2
        /\ fr[t].logs[1].channel = <<>> /\ fr[t].logs[2].channel # <<>>
        /\ fr[t].text # <<>>

\* the log calls made while the slot held an observer, as the notifications owed
Owed ==
    LET observed == SelectSeq(calls, LAMBDA c : c.listener # None)
    IN [k \in 1..Len(observed) |->
          [listener |-> observed[k].listener[1], log |-> observed[k].log]]

\* C3: with the log calls made from one thread, on_log is invoked once for each log
\* call made while an observer is installed, on that observer, with the channel,
\* level and message of the call's entry, in the order of the calls: the invocations
\* are always the first of those owed, and all of them once the call has returned.
C3_OneNotificationPerLog ==
    /\ Len(notes) <= Len(Owed)
    /\ notes = SubSeq(Owed, 1, Len(notes))
    /\ Quiescent => notes = Owed

\* three log calls have returned: one without an observer, then two with one, of
\* different entries
C3_Witness ==
    /\ Quiescent
    /\ Len(calls) = 3 /\ Len(notes) = 2
    /\ calls[1].listener = None
    /\ notes[1].log # notes[2].log
    /\ notes[1].log.channel # notes[1].log.message

\* C5: Log::remove of an entry that the store holds an equal of removes the first
\* entry equal to it and nothing else: the entries before and after it keep their
\* places in the order.
C5_RemovesFirstEqual ==
    [][\A t \in Threads :
         (pc[t] = "remove_locked" /\ pc'[t] # "remove_locked" /\ contains(LOGS, fr[t].log))
            => \E i \in 1..Len(LOGS) :
                  /\ LOGS[i] = fr[t].log
                  /\ \A j \in 1..(i - 1) : LOGS[j] # fr[t].log
                  /\ LOGS' = [k \in 1..(Len(LOGS) - 1) |->
                                IF k < i THEN LOGS[k] ELSE LOGS[k + 1]]]_vars

\* e, x, e were logged and e was removed: x and the second e are left
C5_Witness ==
    \E t \in Threads :
        /\ pc[t] = "done" /\ fr[t].op = "remove"
        /\ Len(calls) = 3 /\ epoch = 0
        /\ \A k \in 1..3 : calls[k].listener = None
        /\ calls[1].log = fr[t].log /\ calls[2].log # fr[t].log /\ calls[3].log = fr[t].log
        /\ LOGS = <<calls[2].log, calls[3].log>>

\* C6 as it is stated: a thread logs E and then removes E: the store holds no entry
\* equal to E, a traceback taken next holds none, and a second remove of E does not
\* return, it panics.
C6_AsStated ==
    \A t \in Threads :
        /\ (pc[t] \in {"done", "panicked"} /\ fr[t].op = "remove"
              /\ fr[t].last.op = "log" /\ fr[t].last.log = fr[t].log)
                 => ~contains(LOGS, fr[t].log)
        /\ (pc[t] = "done" /\ fr[t].op = "get_logs_traceback" /\ fr[t].last.op = "remove")
                 => ~contains(fr[t].logs, fr[t].last.log)
        /\ (fr[t].op = "remove" /\ fr[t].last.op = "remove" /\ fr[t].last.log = fr[t].log)
                 => pc[t] # "done"

\* C6, amended: the same, when the store held no entry equal to E before E was
\* appended.
C6_RemoveAfterAppend ==
    \A t \in Threads :
        /\ (pc[t] \in {"done", "panicked"} /\ fr[t].op = "remove"
              /\ fr[t].last.op = "log" /\ fr[t].last.log = fr[t].log /\ fr[t].last.fresh)
                 => ~contains(LOGS, fr[t].log)
        /\ (pc[t] = "done" /\ fr[t].op = "get_logs_traceback" /\ fr[t].last.op = "remove"
              /\ fr[t].last.fresh)
                 => ~contains(fr[t].logs, fr[t].last.log)
        /\ (fr[t].op = "remove" /\ fr[t].last.op = "remove" /\ fr[t].last.log = fr[t].log
              /\ fr[t].last.fresh)
                 => pc[t] # "done"

\* on a store that held another entry, E was logged, removed, left out of a traceback
\* and removed again: the second remove has panicked
C6_Witness ==
    \E t \in Threads :
        /\ pc[t] = "panicked" /\ fr[t].op = "remove"
        /\ fr[t].last.op = "remove" /\ fr[t].last.log = fr[t].log /\ fr[t].last.fresh
        /\ fr[t].prev # None
        /\ LOGS # <<>>

IsReset(t) == fr[t].op \in {"init", "init_with_listener"}

\* C4: when init() or init_with_listener(o) has returned and no other thread was in
\* a call while it ran, the entry sequence is empty, the traceback of everything
\* renders to the empty string and the slot holds o, or nothing after init(); and
\* on_log is only ever invoked on the observer the slot holds at that moment, so an
\* observer that a reset has replaced is not notified of a later log call.
C4_ResetClearsStoreAndSlot ==
    /\ [](\A t \in Threads :
            (pc[t] = "done" /\ IsReset(t) /\ fr[t].solo)
               => /\ LOGS = <<>>
                  /\ to_string(traceback(LOGS, None, None)) = <<>>
                  /\ LOG_LISTENER = fr[t].listener)
    /\ [][notes' # notes
            => /\ LOG_LISTENER = Some(notes'[Len(notes')].listener)
               /\ LOG_LISTENER' = LOG_LISTENER]_vars

\* an observer was installed and notified of an entry the store kept, and then
\* init_with_listener of another observer has returned, alone
C4_Witness ==
    \E t \in Threads :
        /\ pc[t] = "done" /\ fr[t].op = "init_with_listener" /\ fr[t].solo
        /\ Len(calls) = 1 /\ Len(notes) = 1
        /\ ~evicts(notes[1].listener, notes[1].log)
        /\ fr[t].listener # Some(notes[1].listener)

\* how many entries of v equal x
Count(v, x) == Cardinality({k \in 1..Len(v) : v[k] = x})

\* thread t is in on_log, or in the remove that on_log called, or about to leave
InCallback(t) ==
    LISTENER_lock = t /\ pc[t] \in {"on_log", "remove", "remove_locked", "log_unlock"}

\* C7: with threads that only call log and an observer whose on_log removes the entry
\* it is given (MyLogListener does so below Warn): no thread panics; a thread in the
\* callback can always take its next step, so the callback returns; and once every
\* log call has returned, the store holds none of the entries the observer removes,
\* and each entry it keeps as often as it was logged.
C7_ObserverEvicts ==
    /\ \A t \in Threads : pc[t] # "panicked"
    /\ \A t \in Threads :
          InCallback(t) => ENABLED (on_log(t) \/ RemoveLock(t) \/ Log_remove(t)
                                       \/ LogUnlockListener(t))
    /\ (Quiescent /\ LOG_LISTENER = Some(MyLogListener))
          => /\ \A k \in 1..Len(LOGS) : ~evicts(MyLogListener, LOGS[k])
             /\ \A c \in Range(calls) :
                   ~evicts(MyLogListener, c.log)
                      => Count(LOGS, c.log) = Cardinality({k \in 1..Len(calls) : calls[k] = c})

\* two threads have pushed equal entries that MyLogListener removes; one is in the
\* remove its callback called, the other waits for the slot's lock
C7_Witness ==
    \E t, u \in Threads :
        /\ t # u
        /\ LOG_LISTENER = Some(MyLogListener)
        /\ pc[t] = "remove" /\ LISTENER_lock = t
        /\ pc[u] = "log_listener"
        /\ fr[t].log = fr[u].log
        /\ Count(LOGS, fr[t].log) = 2

\* C10 as it is stated, for a behaviour of two calls from the first state (an empty
\* store, no observer): a reset by thread a and a log by thread b. When both have
\* returned, either the store is empty (log, then reset), or it holds the entry and
\* the log call found in the slot what the reset put there (reset, then log).
C10_AsStated ==
    \A a, b \in Threads :
        (nops = 2 /\ pc[a] = "done" /\ IsReset(a) /\ pc[b] = "done" /\ fr[b].op = "log")
           => \/ LOGS = <<>>
              \/ LOGS = <<fr[b].log>> /\ fr[b].listener = fr[a].listener

\* thread t is in a log call that has appended its entry and has not returned
AfterAppend(t) ==
    /\ fr[t].op = "log"
    /\ pc[t] \in {"log_listener", "on_log", "remove", "remove_locked", "log_unlock"}

\* C11 as it is stated: from the append of its entry to the end of on_log a log call
\* holds the lock of the entry sequence, and no step of another thread changes the
\* entry sequence.
C11_AsStated ==
    [][\A t \in Threads :
         AfterAppend(t) => /\ LOGS_lock = t
                           /\ pc'[t] = pc[t] => LOGS' = LOGS]_vars

\* C11, amended: the callback of a log call runs while the call holds the lock of the
\* observer slot and not the lock of the entry sequence, which it gave up right after
\* the append; the remove that the callback calls takes the lock of the entry
\* sequence for its own duration only.
C11_CallbackHoldsSlotLock ==
    \A t \in Threads :
        /\ (AfterAppend(t) /\ pc[t] # "log_listener") => LISTENER_lock = t
        /\ (AfterAppend(t) /\ pc[t] # "remove_locked") => LOGS_lock # t

\* a thread is in on_log while another thread, in a query, holds the lock of the
\* entry sequence and has read the entry the callback is about
C11_Witness ==
    \E t, u \in Threads :
        /\ t # u
        /\ pc[t] = "on_log" /\ LISTENER_lock = t
        /\ pc[u] = "tb_iter" /\ LOGS_lock = u
        /\ fr[u].logs = <<fr[t].log>>

\* v is the beginning of w
IsPrefix(v, w) == Len(v) <= Len(w) /\ v = SubSeq(w, 1, Len(v))

\* C12: with threads that call log and get_logs_traceback only, the entry of a log
\* call is in the store when on_log is invoked for it and until the call returns,
\* and a query without filters returns, in their order, every entry that was in the
\* store when the query was called, whatever the log calls that appended them are
\* doing in the meantime.
C12_AppendBeforeNotify ==
    \A t \in Threads :
        /\ (fr[t].op = "log" /\ pc[t] \in {"on_log", "log_unlock", "done"})
              => contains(LOGS, fr[t].log)
        /\ (fr[t].op = "get_logs_traceback" /\ pc[t] \in {"tb_ret", "done"})
              => IsPrefix(fr[t].before, fr[t].logs)

\* a query that was called after a log call's append has returned the entry while
\* the log call is still in on_log for it
C12_Witness ==
    \E t, u \in Threads :
        /\ pc[t] = "on_log"
        /\ pc[u] = "done" /\ fr[u].op = "get_logs_traceback"
        /\ fr[u].before = <<fr[t].log>>
        /\ fr[u].logs = <<fr[t].log>>

\* thread t is in a call that has not returned or panicked
InCall(t) == pc[t] \notin {"idle", "done", "panicked"}

\* thread t needs the lock of the entry sequence, or of the observer slot, for its
\* next step
WantsLOGS(t) == pc[t] \in {"init_clear", "log_push", "remove", "tb_lock"}
WantsLISTENER(t) == pc[t] \in {"init_set", "log_listener"}

\* thread t waits for a lock that thread u holds
WaitsFor(t, u) ==
    \/ WantsLOGS(t) /\ LOGS_lock = u
    \/ WantsLISTENER(t) /\ LISTENER_lock = u

\* every thread of S waits for a lock that a thread of S holds
Deadlocked(S) == S # {} /\ \A t \in S : \E u \in S : WaitsFor(t, u)

\* C13: with threads calling init, init_with_listener, log, Log::remove and
\* get_logs_traceback, and an observer that leaves the store alone (MockLogListener)
\* or removes the entry it is given (MyLogListener), every call that has begun
\* returns or panics when the threads are scheduled fairly, and in no state is there
\* a set of threads each waiting for a lock that another of them (or itself) holds.
C13_DeadlockFree ==
    /\ \A t \in Threads : [](InCall(t) => <>(pc[t] \in {"done", "panicked"}))
    /\ [](\A S \in SUBSET Threads : ~Deadlocked(S))

\* a thread in the callback, holding the slot's lock, waits in remove for the lock
\* of the entry sequence, which a query of another thread holds
C13_Witness ==
    \E t, u \in Threads :
        /\ t # u
        /\ pc[t] = "remove" /\ LISTENER_lock = t
        /\ pc[u] = "tb_iter" /\ LOGS_lock = u
        /\ WaitsFor(t, u)

\* thread t holds both locks
HoldsBoth(t) == LOGS_lock = t /\ LISTENER_lock = t

C15_QueryIsASnapshot ==
    /\ [](\A t \in Threads : pc[t] = "tb_iter" => LOGS_lock = t)
    /\ [][\A t \in Threads :
            pc[t] = "tb_iter"
               => /\ LOGS' = LOGS
                  /\ pc'[t] = "tb_ret"
                        => fr'[t].logs = Filtered(LOGS, fr[t].min_level, fr[t].channels)]_vars

\* a query has read the first of two entries while a remove of that entry and then
\* a reset wait for the lock; the query goes on to return both entries
C15_Witness ==
    \E t, u \in Threads :
        /\ pc[t] = "tb_iter" /\ fr[t].i = 2 /\ Len(LOGS) = 2
        /\ fr[t].logs = <<LOGS[1]>>
        /\ pc[u] \in {"remove", "init_clear"}
        /\ pc[u] = "remove" => fr[u].log = LOGS[1]

\* C16: Log::remove panics exactly when the entry sequence, as it is from the moment
\* remove takes the lock, holds no entry equal to the given one; the panic leaves
\* the entry sequence and the observer slot as they are and gives the lock back,
\* and a thread that has panicked holds no lock.
C16_RemovePanicsIffAbsent ==
    /\ [](\A t \in Threads : pc[t] = "panicked" => LOGS_lock # t /\ LISTENER_lock # t)
    /\ [][\A t \in Threads :
            pc[t] = "remove_locked"
               => /\ LOGS_lock = t
                  /\ pc'[t] = pc[t] => LOGS' = LOGS
                  /\ pc'[t] # pc[t]
                        => /\ pc'[t] = "panicked" <=> ~contains(LOGS, fr[t].log)
                           /\ pc'[t] = "panicked"
                                 => /\ LOGS' = LOGS
                                    /\ LOG_LISTENER' = LOG_LISTENER
                                    /\ LOGS_lock' = NoThread]_vars

\* a remove of an entry that was logged and kept has panicked after a reset of
\* another thread cleared the store
C16_Witness ==
    \E t, u \in Threads :
        /\ pc[t] = "panicked" /\ fr[t].op = "remove"
        /\ IsReset(u) /\ pc[u] \in {"init_set", "done"}
        /\ LOGS = <<>>
        /\ \E k \in 1..Len(calls) : calls[k].log = fr[t].log /\ calls[k].listener = None

\* thread t is in the log, init or init_with_listener that on_log called, holding
\* the slot's lock of the log call that invoked on_log
Reentered(t) ==
    LISTENER_lock = t /\ pc[t] \in {"log_push", "log_listener", "init_clear", "init_set"}

\* thread t is in on_log of a listener that calls remove or get_logs_traceback
InRemovingOrQueryingCallback(t) ==
    /\ pc[t] = "on_log"
    /\ \/ fr[t].listener = Some(TracebackListener)
       \/ fr[t].listener = Some(MyLogListener)
             /\ evicts(MyLogListener, listener_copy(fr[t].log))

\* C17: a thread whose on_log calls log, init or init_with_listener never leaves that
\* call: it comes to wait for the slot's lock, which it holds itself, and waits
\* forever; a thread whose on_log calls Log::remove or get_logs_traceback comes out
\* of the log call (or panics in remove).
C17_ReentrancyBlocks ==
    /\ [][\A t \in Threads : Reentered(t) => Reentered(t)']_vars
    /\ \A t \in Threads : Reentered(t) ~> [](WantsLISTENER(t) /\ WaitsFor(t, t))
    /\ \A t \in Threads :
          InRemovingOrQueryingCallback(t) ~> (pc[t] \in {"done", "panicked"})

\* a thread waits for the slot's lock it holds, in the log that its on_log called
\* and that has appended a second entry, while another thread's log waits for the
\* same lock
C17_Witness ==
    \E t, u \in Threads :
        /\ t # u
        /\ Reentered(t) /\ pc[t] = "log_listener" /\ WaitsFor(t, t)
        /\ pc[u] = "log_listener"
        /\ Len(LOGS) = 3

\* thread t is executing on_log: it is in the callback of its log call, or in the
\* remove the callback called
InOnLog(t) == AfterAppend(t) /\ pc[t] # "log_listener"

\* C18: at most one thread is executing on_log at any time, and while a thread is
\* executing on_log no step of any thread changes the observer slot: an init or
\* init_with_listener called meanwhile waits at the slot's lock.
C18_OneCallbackAtATime ==
    /\ [](Cardinality({t \in Threads : InOnLog(t)}) <= 1)
    /\ [][(\E t \in Threads : InOnLog(t)) => LOG_LISTENER' = LOG_LISTENER]_vars

\* a thread is executing on_log while a reset by another thread, which would put
\* something else in the slot, has cleared the store and waits for the slot's lock
C18_Witness ==
    \E t, u \in Threads :
        /\ InOnLog(t) /\ pc[t] = "on_log"
        /\ pc[u] = "init_set" /\ fr[u].listener # LOG_LISTENER
        /\ WaitsFor(u, t)

\* the entries the observer was notified of, in the order of the notifications
Notified == [k \in 1..Len(notes) |-> notes[k].log]

\* C19 as it is stated: with threads that only call log and MockLogListener
\* installed, the entries the observer has been notified of are, in the order of the
\* notifications, the entries of the store in the store's order, once every call
\* has returned.
C19_AsStated ==
    (LOG_LISTENER = Some(MockLogListener) /\ Quiescent)
        => Notified = [k \in 1..Len(LOGS) |-> listener_copy(LOGS[k])]

\* thread t is in a log call that has appended its entry, or has returned from it
Appended(t) ==
    fr[t].op = "log" /\ pc[t] \in {"log_listener", "on_log", "log_unlock", "done"}

\* C20: with threads that only call log and an observer that removes nothing (or
\* none): every step of the store appends one entry, that of the log call taking
\* the step, after the entries already there; the entry of a thread's log call
\* comes after the entry of the log call the thread made before it; and once every
\* call has returned the store holds each entry as often as it was logged.
C20_NoEntryLostOrDuplicated ==
    /\ [](LOG_LISTENER # Some(MyLogListener)
            => /\ \A t \in Threads :
                     (Appended(t) /\ fr[t].last.op = "log")
                        => \E i, j \in 1..Len(LOGS) :
                              i < j /\ LOGS[i] = fr[t].last.log /\ LOGS[j] = fr[t].log
               /\ Quiescent
                     => /\ Len(LOGS) = Len(calls)
                        /\ \A c \in Range(calls) :
                              Count(LOGS, c.log)
                                 = Cardinality({k \in 1..Len(calls) : calls[k].log = c.log}))
    /\ [][LOG_LISTENER # Some(MyLogListener)
            => /\ IsPrefix(LOGS, LOGS')
               /\ \A t \in Threads :
                     (pc[t] = "log_push" /\ pc'[t] # "log_push")
                        => LOGS' = Append(LOGS, fr[t].log)]_vars

\* a thread's second entry has gone in after the entry of another thread, which
\* went in after the thread's first entry; neither log call has returned
C20_Witness ==
    \E t, u \in Threads :
        /\ t # u
        /\ LOG_LISTENER = Some(MockLogListener)
        /\ pc[t] = "on_log" /\ pc[u] = "log_listener"
        /\ fr[t].last.op = "log" /\ fr[t].last.log # fr[t].log
        /\ LOGS = <<fr[t].last.log, fr[u].log, fr[t].log>>

====
